---------------------------- MODULE Spec2Model ----------------------------
(***************************************************************************)
(* Gesture-to-animation physics controllers of the 3d-model repository.    *)
(*                                                                         *)
(* The repository holds five variants of the Model component:              *)
(*   "clamp"    src/src/App.jsx 1-238      displacement drag, clamped      *)
(*                                         targetScroll, idle retraction   *)
(*   "momentum" src/src/App.jsx 239-514    displacement drag, looping,     *)
(*                                         release momentum, one-shot hand *)
(*   "loop"     src/unnamed/part_001 1-252 displacement drag, looping,     *)
(*                                         delta-scaled smoothing          *)
(*   "wheel"    src/unnamed/part_001 253-361 wheel rate model, clamped     *)
(*   "click"    src/unnamed/part_000       click-triggered one-shot clip   *)
(*                                                                         *)
(* Numbers are fixed point.  Every assignment of the source computes the   *)
(* exact value of its right-hand side from the stored operands and then    *)
(* rounds it toward zero onto the grid of its quantity:                    *)
(*   pointer coordinates          pixels                                   *)
(*   clip time, scroll            milliseconds                             *)
(*   hand offset, motion, progress  1/Span  (Span = 250, so that one pixel *)
(*                                of drag is one unit: interactionScale)    *)
(*   angles, spin, positions      1/AngleUnit                              *)
(*   elapsed frame time, sample time   milliseconds                        *)
(***************************************************************************)
EXTENDS Integers, Sequences, FiniteSets, TLC

VARIABLES
    variant,            \* which Model component is mounted
    clipDuration,       \* duration of animations[0] in ms, 0: the file has no clip
    scene,              \* the traversal order of the scene: a sequence of node kinds
    nodeRotX,           \* rotation.x of every scene node
    nodePosY,           \* position.y of every scene node
    mounted,            \* the effects have run (listeners are registered)
    scrollPos, targetScroll, maxTime, scrollVelocity,
    spinVelocity, targetSpinVelocity,
    isDragging, lastY, startY, dragSpeed,
    leftArm, leftWrist, leftArmBaseRotation, ballsRef,
    handOffset, smoothMotion,
    handInteractionTriggered, handInteractionProgress, handInteractionDirection,
    mixerTime,          \* the time last given to mixer.setTime
    clipActions,        \* the AnimationAction of every clip of the file
    circleRef,          \* the node bound by the click variant's inspection
    mode,               \* "bounded": every event counts against MaxSteps;
                        \* "scan": the same against MaxScanSteps, richer scenes;
                        \* "spin": the same against MaxSpinSteps, scenes with balls;
                        \* "idle": frame ticks outside a drag are not counted;
                        \* "fair": no frame tick is counted
    steps,              \* number of events counted so far
    idleFrames,         \* frame ticks since the last input event, up to IdleEnough
    lastEvent,          \* the handler that ran last
    sessStartY,         \* pointer position of the last pointer-down
    sessStartTarget,    \* targetScroll when the last pointer-down arrived
    sessArmings,        \* armings of the one-shot gesture since the last pointer-down
    sessAllUp,          \* every move since the last pointer-down went upward
    retriggers,         \* triggers of the click variant that found the clip running
    timeWritten,        \* the last frame tick called mixer.setTime
    listeners,          \* the event types with a listener registered on window
    rendered,           \* the component is in the tree: its frame callback and event props are live
    treatments,         \* the treatments that have altered targetScroll: "clamp", "decay"
    prevented,          \* the last step was an event whose handler called e.preventDefault()
    released            \* <<targetScroll, scrollVelocity>> at the last pointer-up of the momentum variant

physicsVars == <<scrollPos, targetScroll, maxTime, scrollVelocity, spinVelocity,
                 targetSpinVelocity, isDragging, lastY, startY, dragSpeed,
                 handOffset, smoothMotion, handInteractionTriggered,
                 handInteractionProgress, handInteractionDirection>>
bindingVars == <<leftArm, leftWrist, leftArmBaseRotation, ballsRef>>
sceneVars == <<variant, clipDuration, scene>>
nodeVars == <<nodeRotX, nodePosY>>
ghostVars == <<sessStartY, sessStartTarget, sessArmings, sessAllUp>>
countVars == <<mode, steps, idleFrames, lastEvent, retriggers>>
vars == <<sceneVars, nodeVars, mounted, physicsVars, bindingVars, mixerTime,
          clipActions, circleRef, countVars, ghostVars, timeWritten, listeners, rendered, treatments, prevented, released>>

-----------------------------------------------------------------------------
(* Bounds and units *)

MaxSteps == 6
MaxIdleSteps == 5
MaxFairSteps == 4
MaxScanSteps == 3
MaxSpinSteps == 5
ScanLen == 2
IdleEnough == 70
\* tolerances of the decay properties: spin in 1/AngleUnit rad, scroll in ms
SpinEps == 10
DecayTol == 1

Span == 250
HandMoveSpeed == 1
AngleUnit == 10000
PiE4 == 31416
Undefined == 0 - 1000000

Abs(x) == IF x < 0 THEN -x ELSE x
Min(a, b) == IF a < b THEN a ELSE b
Max(a, b) == IF a > b THEN a ELSE b

\* rounding toward zero of n / d, d > 0
TruncDiv(n, d) == IF n >= 0 THEN n \div d ELSE -((-n) \div d)

\* THREE.MathUtils.lerp(x, y, t) = (1 - t) * x + t * y with t = tn / td
Lerp(x, y, tn, td) == TruncDiv((td - tn) * x + tn * y, td)

\* THREE.MathUtils.clamp(v, lo, hi) = Math.max(lo, Math.min(hi, v))
Clamp(v, lo, hi) == Max(lo, Min(hi, v))


-----------------------------------------------------------------------------
(* Inputs *)

\* clientY of the pointer and touch events
PointerYs == IF mode = "bounded" THEN {0, 25, 300} ELSE {0, 25}
\* performance.now() - lastTime of a move sample, in ms
SampleTimes == IF mode = "bounded" THEN {0, 16} ELSE {16}
\* the elapsed time useFrame hands to the frame callback, in ms
FrameDeltas == IF mode \in {"idle", "scan", "spin"} THEN {16} ELSE IF mode = "fair" THEN {200} ELSE {0, 16, 250}
\* e.touches is set: the event is a touch event, not a mouse event
TouchEvents == IF mode = "bounded" THEN {FALSE, TRUE} ELSE {FALSE}
\* deltaY of the wheel events
WheelDeltas == {-250, 250, 2500}
\* the clips model.glb may hold: none, or one of this duration in ms
ClipDurations == {0, 1000, 10000}
\* the scenes model.glb may hold, as the names of their nodes in traversal order
Scenes == {<<"arm", "wrist">>}
\* the node names of the scenes of mode "scan"
NodeNames == {"arm", "Left_ForeArm", "wrist", "Circle", "CIRCLE", "body"}
ScanScenes == [1..ScanLen -> NodeNames]
\* the authored rotation.x of the nodes
RestRotations == {0, 3000}

-----------------------------------------------------------------------------
(* Scene inspection *)

\* Node names stand for the classes the name tests of the traversals tell apart.
\* lower-cased name passes isLeft and the forearm / lowerarm / arm test
ArmNames == {"arm", "Left_ForeArm", "Left_Arm_Ball"}
\* lower-cased name passes isLeft and the wrist / hand test
WristNames == {"wrist", "LEFT_HAND"}
\* mesh whose lower-cased name includes ball, circle or sphere
BallNames == {"ball", "Circle", "CIRCLE", "Left_Arm_Ball"}
\* name includes 'circle', 'Circle', 'balls' or 'Balls' as written (part_000:16)
CircleNames == {"Circle"}

\* the names that qualify for role k
Names(k) ==
    IF k = "arm" THEN ArmNames
    ELSE IF k = "wrist" THEN WristNames
    ELSE IF k = "ball" THEN BallNames
    ELSE IF k = "circle" THEN CircleNames
    ELSE {}

\* the nodes that qualify for role k, in traversal order
RECURSIVE NodesOfKind(_, _, _)
NodesOfKind(sc, k, i) ==
    IF i > Len(sc) THEN <<>>
    ELSE (IF sc[i] \in Names(k) THEN <<i>> ELSE <<>>) \o NodesOfKind(sc, k, i + 1)

\* a traversal that keeps the first qualifying node
FirstNode(sc, k) ==
    LET ns == NodesOfKind(sc, k, 1) IN IF ns = <<>> THEN 0 ELSE ns[1]

\* scene.traverse assigns the binding at every qualifying node: the last one stays
BoundNode(sc, k) ==
    LET ns == NodesOfKind(sc, k, 1) IN IF ns = <<>> THEN 0 ELSE ns[Len(ns)]

\* a load effect that binds the limb and leaves the base rotation as it was
BaseNotCaptured(sc, rot, base) == base

\* leftArmBaseRotation = new THREE.Euler(), then copy(child.rotation) where the
\* limb is bound: the previous base is discarded
CapturedBase(sc, rot, base) ==
    IF BoundNode(sc, "arm") # 0 THEN rot[BoundNode(sc, "arm")] ELSE 0

\* a spin step that turns only the first ball of the list
SpinFirstBall(rot, balls, spin) ==
    [i \in DOMAIN rot |->
        IF balls # <<>> /\ balls[1] = i THEN rot[i] + spin ELSE rot[i]]

\* ballsRef.current.forEach(ball => ball.rotation.x += spinVelocity)
SpinBalls(rot, balls, spin) ==
    [i \in DOMAIN rot |->
        IF \E j \in DOMAIN balls : balls[j] = i THEN rot[i] + spin ELSE rot[i]]

AngleUp == (90 * PiE4) \div 180
AngleDown == (20 * PiE4) \div 180

\* motion > 0 ? motion * angleUp : motion * angleDown
TargetRotation(motion) ==
    IF motion > 0 THEN TruncDiv(motion * AngleUp, Span)
    ELSE TruncDiv(motion * AngleDown, Span)

\* motion > 0 ? motion * up : motion * down, up and down in 1/100
TargetLift(motion, up, down) ==
    IF motion > 0 THEN TruncDiv(motion * up * AngleUnit, Span * 100)
    ELSE TruncDiv(motion * down * AngleUnit, Span * 100)

\* window.addEventListener of the drag variants' input effect
DragListeners == {"mousedown", "mousemove", "mouseup",
                  "touchstart", "touchmove", "touchend", "touchcancel"}
\* a cleanup that forgets the touchcancel listener
DragListenersButCancel == {"mousedown", "mousemove", "mouseup",
                           "touchstart", "touchmove", "touchend"}
\* window.removeEventListener of the cleanup the input effect returns
DragListenersRemoved == {"mousedown", "mousemove", "mouseup",
                         "touchstart", "touchmove", "touchend", "touchcancel"}
\* the wheel variant's input effect and its cleanup
WheelListeners == {"wheel"}
WheelListenersRemoved == {"wheel"}

\* the platform dispatches an event only to a registered listener of its type
Listening(types) == types \cap listeners # {}

\* a handleMove that handles every move sample
MoveNeverIgnored(dragging) == FALSE

\* if (!physics.current.isDragging) return;
MoveIgnored(dragging) == ~dragging

\* a frame callback without the idle retraction
IdleDecayNone(x) == x

\* THREE.MathUtils.lerp(x, 0, 0.08): the idle retraction of the clamp variant
IdleDecay(x) == Lerp(x, 0, 8, 100)

\* The bookkeeping of one event.  In mode "idle" a frame tick outside a drag is
\* free, so that the idle decay can run to its end; in mode "fair" every frame
\* tick is free; all other events are counted against the mode's limit.
Tick(ev) ==
    LET free == \/ mode = "idle" /\ ev = "frame" /\ ~isDragging
                \/ mode = "fair" /\ ev = "frame"
        limit == IF mode = "idle" THEN MaxIdleSteps
                 ELSE IF mode = "fair" THEN MaxFairSteps
                 ELSE IF mode = "scan" THEN MaxScanSteps
                 ELSE IF mode = "spin" THEN MaxSpinSteps ELSE MaxSteps
    IN /\ free \/ steps < limit
       /\ steps' = IF free THEN steps ELSE steps + 1
       /\ idleFrames' = IF ev = "frame" THEN Min(idleFrames + 1, IdleEnough)
                        ELSE IF ev = "load" THEN idleFrames ELSE 0
       /\ lastEvent' = ev
       /\ mode' = mode
       /\ retriggers' =
             IF ev \in {"click", "pointerdown"} /\ Len(clipActions) > 0
                /\ clipActions[1].active /\ clipActions[1].enabled
                /\ ~clipActions[1].paused
             THEN retriggers + 1 ELSE retriggers

\* an AnimationAction as mixer.clipAction creates it
NewAction == [active |-> FALSE, paused |-> FALSE, enabled |-> TRUE, time |-> 0,
              loop |-> "repeat", clamp |-> FALSE, fading |-> FALSE]

\* the load effects: actions[names[0]].play(), then paused is assigned
PlayFirst(acts, paused) ==
    IF Len(acts) = 0 THEN acts
    ELSE [acts EXCEPT ![1] = [@ EXCEPT !.active = TRUE, !.paused = paused]]

-----------------------------------------------------------------------------
(* Variant "clamp": src/src/App.jsx 1-238 *)

LoadEffectClamp ==
    /\ variant = "clamp"
    /\ Tick("load")
    /\ UNCHANGED released
    /\ prevented' = FALSE
    /\ UNCHANGED treatments
    /\ rendered' = TRUE
    /\ listeners' = IF mounted THEN listeners ELSE listeners \cup DragListeners
    /\ UNCHANGED timeWritten
    /\ clipActions' = PlayFirst(clipActions, FALSE)
    /\ maxTime' = IF clipDuration > 0 THEN clipDuration ELSE maxTime
    /\ ballsRef' = NodesOfKind(scene, "ball", 1)
    /\ leftArm' = BoundNode(scene, "arm")
    /\ leftWrist' = BoundNode(scene, "wrist")
    /\ leftArmBaseRotation' = CapturedBase(scene, nodeRotX, leftArmBaseRotation)
    /\ mounted' = TRUE
    /\ UNCHANGED <<sceneVars, nodeVars, scrollPos, targetScroll, scrollVelocity,
                   spinVelocity, targetSpinVelocity, isDragging, lastY, startY,
                   dragSpeed, handOffset, smoothMotion, handInteractionTriggered,
                   handInteractionProgress, handInteractionDirection, mixerTime, circleRef,
                   ghostVars>>

HandleStartClamp(y) ==
    /\ variant = "clamp" /\ Listening({"mousedown", "touchstart"})
    /\ Tick("down")
    /\ UNCHANGED released
    /\ \E touch \in TouchEvents : prevented' = touch
    /\ UNCHANGED treatments
    /\ UNCHANGED rendered
    /\ UNCHANGED listeners
    /\ UNCHANGED timeWritten
    /\ isDragging' = TRUE
    /\ lastY' = y
    /\ dragSpeed' = 0
    /\ sessStartY' = y
    /\ sessStartTarget' = targetScroll
    /\ sessArmings' = 0
    /\ sessAllUp' = TRUE
    /\ UNCHANGED <<sceneVars, nodeVars, mounted, scrollPos, targetScroll, maxTime,
                   scrollVelocity, spinVelocity, targetSpinVelocity, startY,
                   handOffset, smoothMotion, handInteractionTriggered,
                   handInteractionProgress, handInteractionDirection,
                   bindingVars, mixerTime, clipActions, circleRef>>

\* handleMove with the test "targetScroll < 0" left out
MoveTargetNoFloor(target, deltaY, mt) ==
    LET t1 == TruncDiv(target * Span - deltaY * mt, Span)
    IN IF t1 > mt THEN mt ELSE t1

\* handleMove with the test "targetScroll > maxTime" left out
MoveTargetNoCeiling(target, deltaY, mt) ==
    LET t1 == TruncDiv(target * Span - deltaY * mt, Span)
    IN IF t1 < 0 THEN 0 ELSE t1

\* targetScroll after lines 116-122: accumulate, then clamp into [0, maxTime]
MoveTargetClamp(target, deltaY, mt) ==
    LET t1 == TruncDiv(target * Span - deltaY * mt, Span)
        t2 == IF t1 < 0 THEN 0 ELSE t1
    IN IF t2 > mt THEN mt ELSE t2

HandleMoveClamp(y, dt) ==
    /\ variant = "clamp" /\ Listening({"mousemove", "touchmove"})
    /\ Tick("move")
    /\ UNCHANGED released
    /\ \E touch \in TouchEvents : prevented' = (touch /\ ~MoveIgnored(isDragging))
    /\ treatments' = IF isDragging
                         /\ MoveTargetClamp(targetScroll, y - lastY, maxTime)
                              # TruncDiv(targetScroll * Span - (y - lastY) * maxTime, Span)
                      THEN treatments \cup {"clamp"} ELSE treatments
    /\ UNCHANGED rendered
    /\ UNCHANGED listeners
    /\ UNCHANGED timeWritten
    /\ IF MoveIgnored(isDragging)
       THEN UNCHANGED <<physicsVars, ghostVars>>
       ELSE LET deltaY == y - lastY IN
            /\ dragSpeed' = (Abs(deltaY) * 1000) \div Max(dt, 1)
            /\ lastY' = y
            /\ targetScroll' = MoveTargetClamp(targetScroll, deltaY, maxTime)
            /\ handOffset' = Clamp(handOffset - deltaY, -Span, Span)
            /\ targetSpinVelocity' = TruncDiv(deltaY * 10 * 5 * AngleUnit, 100 * 10)
            /\ sessAllUp' = (sessAllUp /\ deltaY < 0)
            /\ UNCHANGED <<scrollPos, maxTime, scrollVelocity, spinVelocity,
                           isDragging, startY, smoothMotion,
                           handInteractionTriggered, handInteractionProgress,
                           handInteractionDirection, sessStartY, sessStartTarget,
                           sessArmings>>
    /\ UNCHANGED <<sceneVars, nodeVars, mounted, bindingVars, mixerTime, clipActions, circleRef>>

HandleEndClamp ==
    /\ variant = "clamp" /\ Listening({"mouseup", "touchend", "touchcancel"})
    /\ Tick("up")
    /\ UNCHANGED released
    /\ prevented' = FALSE
    /\ UNCHANGED treatments
    /\ UNCHANGED rendered
    /\ UNCHANGED listeners
    /\ UNCHANGED timeWritten
    /\ isDragging' = FALSE
    /\ dragSpeed' = 0
    /\ UNCHANGED <<sceneVars, nodeVars, mounted, scrollPos, targetScroll, maxTime,
                   scrollVelocity, spinVelocity, targetSpinVelocity, lastY, startY,
                   handOffset, smoothMotion, handInteractionTriggered,
                   handInteractionProgress, handInteractionDirection,
                   bindingVars, mixerTime, clipActions, circleRef, ghostVars>>

\* lines 174-198: the arm is moved toward base + target, the wrist follows
LimbLerped(rot, motion) ==
    IF leftArm = 0 THEN rot
    ELSE [rot EXCEPT ![leftArm] =
             Lerp(rot[leftArm], leftArmBaseRotation + TargetRotation(motion), 2, 10)]

LiftLerped(pos, motion) ==
    LET p1 == IF leftArm = 0 THEN pos
              ELSE [pos EXCEPT ![leftArm] =
                       Lerp(pos[leftArm], TargetLift(motion, 20, 10), 1, 10)]
    IN IF leftWrist = 0 THEN p1
       ELSE [p1 EXCEPT ![leftWrist] =
                Lerp(p1[leftWrist], TargetLift(motion, 10, 5), 1, 10)]

\* p.spinVelocity += (p.targetSpinVelocity - p.spinVelocity) * 0.05
SpinFixed(spin, target) == TruncDiv(spin * 100 + (target - spin) * 5, 100)
\* p.targetSpinVelocity *= 0.95
SpinTargetFixed(target) == TruncDiv(target * 95, 100)

FrameClamp(delta) ==
    /\ variant = "clamp" /\ rendered
    /\ Tick("frame")
    /\ UNCHANGED released
    /\ prevented' = FALSE
    /\ treatments' = IF ~isDragging /\ IdleDecay(targetScroll) # targetScroll
                      THEN treatments \cup {"decay"} ELSE treatments
    /\ UNCHANGED rendered
    /\ UNCHANGED listeners
    /\ timeWritten' = TRUE
    /\ LET target == IF ~isDragging THEN IdleDecay(targetScroll) ELSE targetScroll
           hand == IF ~isDragging THEN IdleDecay(handOffset) ELSE handOffset
           pos == Lerp(scrollPos, target, 15, 100)
           motion == Clamp(hand, -Span, Span)
           spin == SpinFixed(spinVelocity, targetSpinVelocity)
       IN /\ targetScroll' = target
          /\ handOffset' = hand
          /\ scrollPos' = pos
          /\ mixerTime' = pos
          /\ nodeRotX' = SpinBalls(LimbLerped(nodeRotX, motion), ballsRef, spin)
          /\ nodePosY' = LiftLerped(nodePosY, motion)
          /\ spinVelocity' = spin
          /\ targetSpinVelocity' = SpinTargetFixed(targetSpinVelocity)
    /\ UNCHANGED <<sceneVars, mounted, maxTime, scrollVelocity, isDragging, lastY,
                   startY, dragSpeed, smoothMotion, handInteractionTriggered,
                   handInteractionProgress, handInteractionDirection,
                   bindingVars, ghostVars,
                   clipActions, circleRef>>

NextClamp ==
    \/ LoadEffectClamp
    \/ \E y \in PointerYs : HandleStartClamp(y)
    \/ \E y \in PointerYs, dt \in SampleTimes : HandleMoveClamp(y, dt)
    \/ HandleEndClamp
    \/ \E d \in FrameDeltas : FrameClamp(d)

-----------------------------------------------------------------------------
(* Numeric helpers of the looping variants *)

\* the JavaScript remainder a % m: its sign is the sign of a
JsMod(a, m) == a - m * TruncDiv(a, m)

\* the time cursor with a single remainder, negative for a negative position
LoopedTimeSingle(pos, mt) == JsMod(pos, mt)

\* ((scrollPos % maxTime) + maxTime) % maxTime
LoopedTime(pos, mt) == JsMod(JsMod(pos, mt) + mt, mt)

\* Math.sin(progress * Math.PI) for progress in [0, 1], argument and value in
\* 1/Span, by Bhaskara's rational approximation (error below half a unit):
\* sin(pi x) ~ 16 x (1 - x) / (5 - 4 x (1 - x))
SinPi(p) == (Span * 16 * p * (Span - p)) \div (5 * Span * Span - 4 * p * (Span - p))

\* Math.exp(-n / 100) in 1/10000, by squaring from exp(-0.01) = 0.9900
\* (the half power is drawn from a singleton set, so it is computed once)
RECURSIVE ExpNeg(_)
ExpNeg(n) ==
    IF n = 0 THEN 10000
    ELSE IF n % 2 = 0
         THEN CHOOSE sq \in {(h * h) \div 10000 : h \in {ExpNeg(n \div 2)}} : TRUE
         ELSE (ExpNeg(n - 1) * 9900) \div 10000

\* the one-shot test of handleMove: arm when |currentY - startY| > 20
ArmsGesture(triggered, y, sy) == ~triggered /\ Abs(y - sy) > 20

\* handInteractionProgress += delta * 2.5
AdvanceProgress(progress, delta) ==
    TruncDiv(progress * 10000 + delta * 25 * Span, 10000)

\* Math.sin(Math.min(progress, 1) * Math.PI) * handInteractionDirection
WaveOffset(progress, dir) == SinPi(Min(progress, Span)) * dir

\* lines 455-474 and 194-205: the arm is set to base + target, absolutely
LimbAbsolute(rot, motion) ==
    IF leftArm = 0 THEN rot
    ELSE [rot EXCEPT ![leftArm] = leftArmBaseRotation + TargetRotation(motion)]

LiftAbsolute(pos, motion) ==
    LET p1 == IF leftArm = 0 THEN pos
              ELSE [pos EXCEPT ![leftArm] = TargetLift(motion, 20, 10)]
    IN IF leftWrist = 0 THEN p1
       ELSE [p1 EXCEPT ![leftWrist] = TargetLift(motion, 10, 5)]

-----------------------------------------------------------------------------
(* Variant "momentum": src/src/App.jsx 239-514 *)

LoadEffectMomentum ==
    /\ variant = "momentum"
    /\ Tick("load")
    /\ UNCHANGED released
    /\ prevented' = FALSE
    /\ UNCHANGED treatments
    /\ rendered' = TRUE
    /\ listeners' = IF mounted THEN listeners ELSE listeners \cup DragListeners
    /\ UNCHANGED timeWritten
    /\ clipActions' = PlayFirst(clipActions, FALSE)
    /\ maxTime' = IF clipDuration > 0 THEN clipDuration ELSE maxTime
    /\ ballsRef' = NodesOfKind(scene, "ball", 1)
    /\ leftArm' = BoundNode(scene, "arm")
    /\ leftWrist' = BoundNode(scene, "wrist")
    /\ leftArmBaseRotation' = CapturedBase(scene, nodeRotX, leftArmBaseRotation)
    /\ smoothMotion' = 0
    /\ handInteractionTriggered' = FALSE
    /\ mounted' = TRUE
    /\ UNCHANGED <<sceneVars, nodeVars, scrollPos, targetScroll, scrollVelocity,
                   spinVelocity, targetSpinVelocity, isDragging, lastY, startY,
                   dragSpeed, handOffset, handInteractionProgress,
                   handInteractionDirection, mixerTime, circleRef, ghostVars>>

HandleStartMomentum(y) ==
    /\ variant = "momentum" /\ Listening({"mousedown", "touchstart"})
    /\ Tick("down")
    /\ UNCHANGED released
    /\ \E touch \in TouchEvents : prevented' = touch
    /\ UNCHANGED treatments
    /\ UNCHANGED rendered
    /\ UNCHANGED listeners
    /\ UNCHANGED timeWritten
    /\ isDragging' = TRUE
    /\ handInteractionTriggered' = FALSE
    /\ handInteractionProgress' = 0
    /\ lastY' = y
    /\ startY' = y
    /\ dragSpeed' = 0
    /\ sessStartY' = y
    /\ sessStartTarget' = targetScroll
    /\ sessArmings' = 0
    /\ sessAllUp' = TRUE
    /\ UNCHANGED <<sceneVars, nodeVars, mounted, scrollPos, targetScroll, maxTime,
                   scrollVelocity, spinVelocity, targetSpinVelocity, handOffset,
                   smoothMotion, handInteractionDirection, bindingVars, mixerTime, clipActions, circleRef>>

\* the looping handleMove with the floor of the clamped variant carried over
MoveTargetFloored(target, deltaY, mt) ==
    LET t1 == TruncDiv(target * Span - deltaY * mt, Span)
    IN IF t1 < 0 THEN 0 ELSE t1

\* the looping handleMove with a span of 125 pixels
MoveTargetHalfSpan(target, deltaY, mt) ==
    TruncDiv(target * Span - 2 * deltaY * mt, Span)

\* targetScroll += (-deltaY / 250) * maxTime, not clamped
MoveTargetLoop(target, deltaY, mt) == TruncDiv(target * Span - deltaY * mt, Span)

\* a release momentum without friction
MomentumKept(v) == v

\* p.scrollVelocity *= 0.95, outside a drag
MomentumDecay(v) == TruncDiv(v * 95, 100)

\* scrollVelocity = timeDelta / (deltaTime / 16.6)
MoveVelocity(deltaY, mt, dt) == TruncDiv(-deltaY * mt * 166, Span * 10 * dt)

HandleMoveMomentum(y, dt) ==
    /\ variant = "momentum" /\ Listening({"mousemove", "touchmove"})
    /\ Tick("move")
    /\ UNCHANGED released
    /\ \E touch \in TouchEvents : prevented' = (touch /\ ~MoveIgnored(isDragging))
    /\ UNCHANGED treatments
    /\ UNCHANGED rendered
    /\ UNCHANGED listeners
    /\ UNCHANGED timeWritten
    /\ IF MoveIgnored(isDragging)
       THEN UNCHANGED <<physicsVars, ghostVars>>
       ELSE LET deltaY == y - lastY
                arms == ArmsGesture(handInteractionTriggered, y, startY)
            IN
            /\ dragSpeed' = (Abs(deltaY) * 1000) \div Max(dt, 1)
            /\ lastY' = y
            /\ targetScroll' = MoveTargetLoop(targetScroll, deltaY, maxTime)
            /\ handInteractionTriggered' = (handInteractionTriggered \/ arms)
            /\ handInteractionDirection' =
                  IF arms THEN (IF y - startY < 0 THEN 1 ELSE -1)
                  ELSE handInteractionDirection
            /\ handInteractionProgress' = IF arms THEN 0 ELSE handInteractionProgress
            /\ scrollVelocity' =
                  IF dt > 0 THEN MoveVelocity(deltaY, maxTime, dt) ELSE scrollVelocity
            /\ targetSpinVelocity' = TruncDiv(deltaY * 10 * 5 * AngleUnit, 100 * 10)
            /\ sessArmings' = IF arms THEN sessArmings + 1 ELSE sessArmings
            /\ sessAllUp' = (sessAllUp /\ deltaY < 0)
            /\ UNCHANGED <<scrollPos, maxTime, spinVelocity, isDragging, startY,
                           handOffset, smoothMotion, sessStartY, sessStartTarget>>
    /\ UNCHANGED <<sceneVars, nodeVars, mounted, bindingVars, mixerTime, clipActions, circleRef>>

HandleEndMomentum ==
    /\ variant = "momentum" /\ Listening({"mouseup", "touchend", "touchcancel"})
    /\ Tick("up")
    /\ released' = <<targetScroll, scrollVelocity>>
    /\ prevented' = FALSE
    /\ UNCHANGED treatments
    /\ UNCHANGED rendered
    /\ UNCHANGED listeners
    /\ UNCHANGED timeWritten
    /\ isDragging' = FALSE
    /\ dragSpeed' = 0
    /\ UNCHANGED <<sceneVars, nodeVars, mounted, scrollPos, targetScroll, maxTime,
                   scrollVelocity, spinVelocity, targetSpinVelocity, lastY, startY,
                   handOffset, smoothMotion, handInteractionTriggered,
                   handInteractionProgress, handInteractionDirection,
                   bindingVars, mixerTime, clipActions, circleRef, ghostVars>>

\* lerp of a field that may still be undefined: NaN stays NaN
LerpMaybe(x, y, tn, td) == IF x = Undefined THEN Undefined ELSE Lerp(x, y, tn, td)
ClampMaybe(v, lo, hi) == IF v = Undefined THEN Undefined ELSE Clamp(v, lo, hi)

FrameMomentum(delta) ==
    /\ variant = "momentum" /\ rendered
    /\ Tick("frame")
    /\ UNCHANGED released
    /\ prevented' = FALSE
    /\ UNCHANGED treatments
    /\ UNCHANGED rendered
    /\ UNCHANGED listeners
    /\ timeWritten' = (maxTime > 0)
    /\ LET target == IF ~isDragging THEN targetScroll + scrollVelocity ELSE targetScroll
           velocity == IF ~isDragging THEN MomentumDecay(scrollVelocity)
                       ELSE TruncDiv(scrollVelocity * 8, 10)
           waving == handInteractionTriggered /\ handInteractionProgress < Span
           progress == IF waving THEN AdvanceProgress(handInteractionProgress, delta)
                       ELSE handInteractionProgress
           hand == IF waving THEN WaveOffset(progress, handInteractionDirection)
                   ELSE Lerp(handOffset, 0, 1, 10)
           pos == Lerp(scrollPos, target, 1, 10)
           smooth == LerpMaybe(smoothMotion, hand, 1, 10)
           motion == ClampMaybe(smooth, -Span, Span)
           spin == SpinFixed(spinVelocity, targetSpinVelocity)
       IN /\ targetScroll' = target
          /\ scrollVelocity' = velocity
          /\ handInteractionProgress' = progress
          /\ handOffset' = hand
          /\ scrollPos' = pos
          /\ mixerTime' = IF maxTime > 0 THEN LoopedTime(pos, maxTime) ELSE mixerTime
          /\ smoothMotion' = smooth
          /\ nodeRotX' = SpinBalls(LimbAbsolute(nodeRotX, motion), ballsRef, spin)
          /\ nodePosY' = LiftAbsolute(nodePosY, motion)
          /\ spinVelocity' = spin
          /\ targetSpinVelocity' = SpinTargetFixed(targetSpinVelocity)
    /\ UNCHANGED <<sceneVars, mounted, maxTime, isDragging, lastY, startY, dragSpeed,
                   handInteractionTriggered, handInteractionDirection,
                   bindingVars, ghostVars,
                   clipActions, circleRef>>

NextMomentum ==
    \/ LoadEffectMomentum
    \/ \E y \in PointerYs : HandleStartMomentum(y)
    \/ \E y \in PointerYs, dt \in SampleTimes : HandleMoveMomentum(y, dt)
    \/ HandleEndMomentum
    \/ \E d \in FrameDeltas : FrameMomentum(d)

-----------------------------------------------------------------------------
(* Variant "loop": src/unnamed/part_001 1-252 *)

LoadEffectLoop ==
    /\ variant = "loop"
    /\ Tick("load")
    /\ UNCHANGED released
    /\ prevented' = FALSE
    /\ UNCHANGED treatments
    /\ rendered' = TRUE
    /\ listeners' = IF mounted THEN listeners ELSE listeners \cup DragListeners
    /\ UNCHANGED timeWritten
    /\ clipActions' = PlayFirst(clipActions, FALSE)
    /\ maxTime' = IF clipDuration > 0 THEN clipDuration ELSE maxTime
    /\ ballsRef' = NodesOfKind(scene, "ball", 1)
    /\ leftArm' = BoundNode(scene, "arm")
    /\ leftWrist' = BoundNode(scene, "wrist")
    /\ leftArmBaseRotation' = CapturedBase(scene, nodeRotX, leftArmBaseRotation)
    /\ smoothMotion' = 0
    /\ handInteractionTriggered' = FALSE
    /\ mounted' = TRUE
    /\ UNCHANGED <<sceneVars, nodeVars, scrollPos, targetScroll, scrollVelocity,
                   spinVelocity, targetSpinVelocity, isDragging, lastY, startY,
                   dragSpeed, handOffset, handInteractionProgress,
                   handInteractionDirection, mixerTime, circleRef, ghostVars>>

HandleStartLoop(y) ==
    /\ variant = "loop" /\ Listening({"mousedown", "touchstart"})
    /\ Tick("down")
    /\ UNCHANGED released
    /\ \E touch \in TouchEvents : prevented' = touch
    /\ UNCHANGED treatments
    /\ UNCHANGED rendered
    /\ UNCHANGED listeners
    /\ UNCHANGED timeWritten
    /\ isDragging' = TRUE
    /\ handInteractionTriggered' = FALSE
    /\ handInteractionProgress' = 0
    /\ lastY' = y
    /\ startY' = y
    /\ sessStartY' = y
    /\ sessStartTarget' = targetScroll
    /\ sessArmings' = 0
    /\ sessAllUp' = TRUE
    /\ UNCHANGED <<sceneVars, nodeVars, mounted, scrollPos, targetScroll, maxTime,
                   scrollVelocity, spinVelocity, targetSpinVelocity, dragSpeed,
                   handOffset, smoothMotion, handInteractionDirection,
                   bindingVars, mixerTime, clipActions, circleRef>>

HandleMoveLoop(y) ==
    /\ variant = "loop" /\ Listening({"mousemove", "touchmove"})
    /\ Tick("move")
    /\ UNCHANGED released
    /\ \E touch \in TouchEvents : prevented' = (touch /\ ~MoveIgnored(isDragging))
    /\ UNCHANGED treatments
    /\ UNCHANGED rendered
    /\ UNCHANGED listeners
    /\ UNCHANGED timeWritten
    /\ IF MoveIgnored(isDragging)
       THEN UNCHANGED <<physicsVars, ghostVars>>
       ELSE LET deltaY == y - lastY
                arms == ArmsGesture(handInteractionTriggered, y, startY)
            IN
            /\ lastY' = y
            /\ targetScroll' = MoveTargetLoop(targetScroll, deltaY, maxTime)
            /\ handInteractionTriggered' = (handInteractionTriggered \/ arms)
            /\ handInteractionDirection' =
                  IF arms THEN (IF y - startY < 0 THEN 1 ELSE -1)
                  ELSE handInteractionDirection
            /\ handInteractionProgress' = IF arms THEN 0 ELSE handInteractionProgress
            /\ targetSpinVelocity' = TruncDiv(deltaY * 5 * 5 * AngleUnit, 1000 * 10)
            /\ sessArmings' = IF arms THEN sessArmings + 1 ELSE sessArmings
            /\ sessAllUp' = (sessAllUp /\ deltaY < 0)
            /\ UNCHANGED <<scrollPos, maxTime, scrollVelocity, spinVelocity,
                           isDragging, startY, dragSpeed, handOffset, smoothMotion,
                           sessStartY, sessStartTarget>>
    /\ UNCHANGED <<sceneVars, nodeVars, mounted, bindingVars, mixerTime, clipActions, circleRef>>

HandleEndLoop ==
    /\ variant = "loop" /\ Listening({"mouseup", "touchend", "touchcancel"})
    /\ Tick("up")
    /\ UNCHANGED released
    /\ prevented' = FALSE
    /\ UNCHANGED treatments
    /\ UNCHANGED rendered
    /\ UNCHANGED listeners
    /\ UNCHANGED timeWritten
    /\ isDragging' = FALSE
    /\ UNCHANGED <<sceneVars, nodeVars, mounted, scrollPos, targetScroll, maxTime,
                   scrollVelocity, spinVelocity, targetSpinVelocity, lastY, startY,
                   dragSpeed, handOffset, smoothMotion, handInteractionTriggered,
                   handInteractionProgress, handInteractionDirection,
                   bindingVars, mixerTime, clipActions, circleRef, ghostVars>>

\* a damping factor that grows with delta without bound: delta * 10, in 1/10000
DampFactorLinear(delta) == delta * 100

\* dampFactor = 1 - Math.exp(-10 * delta), in 1/10000
DampFactor(delta) == 10000 - ExpNeg(delta)

\* lerp(handOffset, 0, delta * 5)
HandDecayLoop(hand, delta) == Lerp(hand, 0, delta * 5, 1000)
\* lerp(smoothMotion, handOffset, delta * 10)
SmoothLoop(smooth, hand, delta) == Lerp(smooth, hand, delta * 10, 1000)
\* lerp(spinVelocity, targetSpinVelocity, delta * 10)
SpinLoop(spin, target, delta) == Lerp(spin, target, delta * 10, 1000)
\* lerp(targetSpinVelocity, 0, delta * 2)
SpinTargetLoop(target, delta) == Lerp(target, 0, delta * 2, 1000)

FrameLoop(delta) ==
    /\ variant = "loop" /\ rendered
    /\ Tick("frame")
    /\ UNCHANGED released
    /\ prevented' = FALSE
    /\ UNCHANGED treatments
    /\ UNCHANGED rendered
    /\ UNCHANGED listeners
    /\ timeWritten' = (maxTime > 0)
    /\ LET pos == Lerp(scrollPos, targetScroll, DampFactor(delta), 10000)
           waving == handInteractionTriggered /\ handInteractionProgress < Span
           progress == IF waving THEN AdvanceProgress(handInteractionProgress, delta)
                       ELSE handInteractionProgress
           hand == IF waving THEN WaveOffset(progress, handInteractionDirection)
                   ELSE HandDecayLoop(handOffset, delta)
           smooth == SmoothLoop(smoothMotion, hand, delta)
           motion == Clamp(smooth, -Span, Span)
           spin == SpinLoop(spinVelocity, targetSpinVelocity, delta)
       IN /\ scrollPos' = pos
          /\ mixerTime' = IF maxTime > 0 THEN LoopedTime(pos, maxTime) ELSE mixerTime
          /\ handInteractionProgress' = progress
          /\ handOffset' = hand
          /\ smoothMotion' = smooth
          /\ nodeRotX' = SpinBalls(LimbAbsolute(nodeRotX, motion), ballsRef, spin)
          /\ nodePosY' = LiftAbsolute(nodePosY, motion)
          /\ spinVelocity' = spin
          /\ targetSpinVelocity' = SpinTargetLoop(targetSpinVelocity, delta)
    /\ UNCHANGED <<sceneVars, mounted, targetScroll, maxTime, scrollVelocity,
                   isDragging, lastY, startY, dragSpeed, handInteractionTriggered,
                   handInteractionDirection, bindingVars, ghostVars,
                   clipActions, circleRef>>

NextLoop ==
    \/ LoadEffectLoop
    \/ \E y \in PointerYs : HandleStartLoop(y)
    \/ \E y \in PointerYs : HandleMoveLoop(y)
    \/ HandleEndLoop
    \/ \E d \in FrameDeltas : FrameLoop(d)

-----------------------------------------------------------------------------
(* Variant "wheel": src/unnamed/part_001 253-361 *)

LoadEffectWheel ==
    /\ variant = "wheel"
    /\ Tick("load")
    /\ UNCHANGED released
    /\ prevented' = FALSE
    /\ UNCHANGED treatments
    /\ rendered' = TRUE
    /\ listeners' = IF mounted THEN listeners ELSE listeners \cup WheelListeners
    /\ UNCHANGED timeWritten
    /\ clipActions' = PlayFirst(clipActions, TRUE)
    /\ maxTime' = IF clipDuration > 0 THEN clipDuration ELSE maxTime
    /\ ballsRef' = NodesOfKind(scene, "ball", 1)
    /\ mounted' = TRUE
    /\ UNCHANGED <<sceneVars, nodeVars, scrollPos, targetScroll, scrollVelocity,
                   spinVelocity, targetSpinVelocity, isDragging, lastY, startY,
                   dragSpeed, handOffset, smoothMotion, handInteractionTriggered,
                   handInteractionProgress, handInteractionDirection,
                   leftArm, leftWrist, leftArmBaseRotation, mixerTime, circleRef, ghostVars>>

\* handleScroll with both range tests left out
ScrollTargetUnclamped(target, deltaY, mt) == target + deltaY * HandMoveSpeed

\* targetScroll after lines 304-309: e.deltaY * handMoveSpeed (0.001 s = 1 ms per
\* unit of deltaY) is added, then the sum is clamped into [0, maxTime]
ScrollTarget(target, deltaY, mt) ==
    LET t1 == target + deltaY * HandMoveSpeed
        t2 == IF t1 < 0 THEN 0 ELSE t1
    IN IF t2 > mt THEN mt ELSE t2

HandleScroll(deltaY) ==
    /\ variant = "wheel" /\ Listening({"wheel"})
    /\ Tick("wheel")
    /\ UNCHANGED released
    /\ prevented' = FALSE
    /\ treatments' = IF ScrollTarget(targetScroll, deltaY, maxTime)
                              # targetScroll + deltaY * HandMoveSpeed
                      THEN treatments \cup {"clamp"} ELSE treatments
    /\ UNCHANGED rendered
    /\ UNCHANGED listeners
    /\ UNCHANGED timeWritten
    /\ targetScroll' = ScrollTarget(targetScroll, deltaY, maxTime)
    /\ targetSpinVelocity' = TruncDiv(deltaY * 5 * AngleUnit, 10000)
    /\ UNCHANGED <<sceneVars, nodeVars, mounted, scrollPos, maxTime, scrollVelocity,
                   spinVelocity, isDragging, lastY, startY, dragSpeed, handOffset,
                   smoothMotion, handInteractionTriggered, handInteractionProgress,
                   handInteractionDirection, bindingVars, mixerTime, clipActions, circleRef, ghostVars>>

FrameWheel(delta) ==
    /\ variant = "wheel" /\ rendered
    /\ Tick("frame")
    /\ UNCHANGED released
    /\ prevented' = FALSE
    /\ UNCHANGED treatments
    /\ UNCHANGED rendered
    /\ UNCHANGED listeners
    /\ timeWritten' = TRUE
    /\ LET pos == Lerp(scrollPos, targetScroll, 8, 100)
           spin == SpinFixed(spinVelocity, targetSpinVelocity)
       IN /\ scrollPos' = pos
          /\ mixerTime' = pos
          /\ spinVelocity' = spin
          /\ targetSpinVelocity' = SpinTargetFixed(targetSpinVelocity)
          /\ nodeRotX' = SpinBalls(nodeRotX, ballsRef, spin)
    /\ UNCHANGED <<sceneVars, nodePosY, mounted, targetScroll, maxTime,
                   scrollVelocity, isDragging, lastY, startY, dragSpeed, handOffset,
                   smoothMotion, handInteractionTriggered, handInteractionProgress,
                   handInteractionDirection, bindingVars, ghostVars,
                   clipActions, circleRef>>

NextWheel ==
    \/ LoadEffectWheel
    \/ \E dy \in WheelDeltas : HandleScroll(dy)
    \/ \E d \in FrameDeltas : FrameWheel(d)

-----------------------------------------------------------------------------
(* Variant "click": src/unnamed/part_000 *)

\* AnimationAction.isRunning()
IsRunning(a) == a.active /\ a.enabled /\ ~a.paused

\* AnimationAction.stop(): leaves the mixer's active list, then reset()
StopAction(a) == [a EXCEPT !.active = FALSE, !.paused = FALSE, !.enabled = TRUE,
                           !.time = 0, !.fading = FALSE]

\* the loop of handleClick calling action.play() where it should call stop()
PlayAllActions(acts) == [i \in DOMAIN acts |-> [acts[i] EXCEPT !.active = TRUE]]

\* Object.values(actions).forEach(action => action.stop())
StopAllActions(acts) == [i \in DOMAIN acts |-> StopAction(acts[i])]

\* setLoop(LoopOnce, 1); clampWhenFinished = true; reset().fadeIn(0.5).play()
PlayOnce(a) == [a EXCEPT !.loop = "once", !.clamp = TRUE, !.paused = FALSE,
                         !.enabled = TRUE, !.time = 0, !.fading = TRUE,
                         !.active = TRUE]

\* AnimationAction._update for one mixer.update(delta) of a clip of duration dur
UpdateAction(a, delta, dur) ==
    IF ~IsRunning(a) THEN a
    ELSE LET t == a.time + delta
             faded == [a EXCEPT !.fading = a.fading /\ t < 500]
         IN IF a.loop = "once"
            THEN IF t >= dur
                 THEN IF a.clamp
                      THEN [faded EXCEPT !.time = dur, !.paused = TRUE]
                      ELSE [faded EXCEPT !.time = dur, !.enabled = FALSE]
                 ELSE [faded EXCEPT !.time = t]
            ELSE [faded EXCEPT !.time = t % dur]

LoadEffectClick ==
    /\ variant = "click"
    /\ Tick("load")
    /\ UNCHANGED released
    /\ prevented' = FALSE
    /\ UNCHANGED treatments
    /\ rendered' = TRUE
    /\ UNCHANGED listeners
    /\ UNCHANGED timeWritten
    /\ circleRef' = BoundNode(scene, "circle")
    /\ mounted' = TRUE
    /\ UNCHANGED <<sceneVars, nodeVars, physicsVars, bindingVars, mixerTime,
                   clipActions, ghostVars>>

\* handleClick is bound to both onClick and onPointerDown of the scene
HandleClick(ev) ==
    /\ variant = "click" /\ rendered
    /\ Tick(ev)
    /\ UNCHANGED released
    /\ prevented' = FALSE
    /\ UNCHANGED treatments
    /\ UNCHANGED rendered
    /\ UNCHANGED listeners
    /\ UNCHANGED timeWritten
    /\ clipActions' =
          IF Len(clipActions) > 0
          THEN [StopAllActions(clipActions) EXCEPT ![1] = PlayOnce(@)]
          ELSE clipActions
    /\ UNCHANGED <<sceneVars, nodeVars, mounted, physicsVars, bindingVars,
                   mixerTime, circleRef, ghostVars>>

\* useFrame: mixer.update(delta)
FrameClick(delta) ==
    /\ variant = "click" /\ rendered
    /\ Tick("frame")
    /\ UNCHANGED released
    /\ prevented' = FALSE
    /\ UNCHANGED treatments
    /\ UNCHANGED rendered
    /\ UNCHANGED listeners
    /\ UNCHANGED timeWritten
    /\ clipActions' =
          [i \in DOMAIN clipActions |-> UpdateAction(clipActions[i], delta, clipDuration)]
    /\ UNCHANGED <<sceneVars, nodeVars, mounted, physicsVars, bindingVars,
                   mixerTime, circleRef, ghostVars>>

NextClick ==
    \/ LoadEffectClick
    \/ \E ev \in {"click", "pointerdown"} : HandleClick(ev)
    \/ \E d \in FrameDeltas : FrameClick(d)

-----------------------------------------------------------------------------
(* Initial states *)

\* the fields of the physics ref as the component constructs them
InitPhysics ==
    /\ scrollPos = 0 /\ targetScroll = 0 /\ maxTime = 0 /\ scrollVelocity = 0
    /\ spinVelocity = 0 /\ targetSpinVelocity = 0
    /\ isDragging = FALSE /\ lastY = 0 /\ startY = 0 /\ dragSpeed = 0
    /\ leftArm = 0 /\ leftWrist = 0 /\ ballsRef = <<>>
    /\ handOffset = 0
    /\ handInteractionTriggered = FALSE
    /\ handInteractionProgress = 0
    /\ handInteractionDirection = 0

InitScene ==
    /\ clipDuration \in ClipDurations
    /\ clipActions = IF clipDuration > 0 THEN <<NewAction>> ELSE <<>>
    /\ scene \in Scenes
    /\ \E r \in RestRotations : nodeRotX = [i \in DOMAIN scene |-> r]
    /\ nodePosY = [i \in DOMAIN scene |-> 0]

InitGhost ==
    /\ released = <<0, 0>>
    /\ prevented = FALSE
    /\ treatments = {}
    /\ rendered = TRUE
    /\ listeners = {}
    /\ timeWritten = FALSE
    /\ circleRef = 0
    /\ idleFrames = 0
    /\ retriggers = 0
    /\ steps = 0 /\ lastEvent = "init" /\ mounted = FALSE /\ mixerTime = 0
    /\ sessStartY = 0 /\ sessStartTarget = 0 /\ sessArmings = 0 /\ sessAllUp = TRUE

InitClamp ==
    /\ mode = "bounded"
    /\ variant = "clamp"
    /\ InitScene /\ InitPhysics /\ InitGhost
    /\ smoothMotion = Undefined
    /\ leftArmBaseRotation = Undefined

SpecClamp == InitClamp /\ [][NextClamp]_vars

InitMomentum ==
    /\ mode = "bounded"
    /\ variant = "momentum"
    /\ InitScene /\ InitPhysics /\ InitGhost
    /\ smoothMotion = Undefined
    /\ leftArmBaseRotation = Undefined

SpecMomentum == InitMomentum /\ [][NextMomentum]_vars

InitLoop ==
    /\ mode = "bounded"
    /\ variant = "loop"
    /\ InitScene /\ InitPhysics /\ InitGhost
    /\ smoothMotion = 0
    /\ leftArmBaseRotation = 0

SpecLoop == InitLoop /\ [][NextLoop]_vars

InitWheel ==
    /\ mode = "bounded"
    /\ variant = "wheel"
    /\ InitScene /\ InitPhysics /\ InitGhost
    /\ smoothMotion = 0
    /\ leftArmBaseRotation = 0

SpecWheel == InitWheel /\ [][NextWheel]_vars

\* the click variant's file may hold more than one clip
ClipCounts == {1, 2}

InitClick ==
    /\ mode = "bounded"
    /\ variant = "click"
    /\ clipDuration \in ClipDurations
    /\ \E n \in ClipCounts :
          clipActions = IF clipDuration > 0 THEN [i \in 1..n |-> NewAction] ELSE <<>>
    /\ scene \in Scenes
    /\ \E r \in RestRotations : nodeRotX = [i \in DOMAIN scene |-> r]
    /\ nodePosY = [i \in DOMAIN scene |-> 0]
    /\ InitPhysics /\ InitGhost
    /\ smoothMotion = 0
    /\ leftArmBaseRotation = 0

SpecClick == InitClick /\ [][NextClick]_vars

\* the drag variants with free idle frames, one clip and no recognised node
InitIdle ==
    /\ mode = "idle"
    /\ variant \in {"clamp", "momentum", "loop"}
    /\ clipDuration = 1000
    /\ clipActions = <<NewAction>>
    /\ scene = <<>>
    /\ nodeRotX = [i \in DOMAIN scene |-> 0]
    /\ nodePosY = [i \in DOMAIN scene |-> 0]
    /\ InitPhysics /\ InitGhost
    /\ smoothMotion = IF variant = "loop" THEN 0 ELSE Undefined
    /\ leftArmBaseRotation = IF variant = "loop" THEN 0 ELSE Undefined

NextIdle == NextClamp \/ NextMomentum \/ NextLoop

IdleSpec == InitIdle /\ [][NextIdle]_vars

\* the loop variant with free frame ticks, which weak fairness keeps coming
InitFair ==
    /\ mode = "fair"
    /\ variant = "loop"
    /\ clipDuration = 1000
    /\ clipActions = <<NewAction>>
    /\ scene = <<>>
    /\ nodeRotX = [i \in DOMAIN scene |-> 0]
    /\ nodePosY = [i \in DOMAIN scene |-> 0]
    /\ InitPhysics /\ InitGhost
    /\ smoothMotion = 0
    /\ leftArmBaseRotation = 0

FairSpec == InitFair /\ [][NextLoop]_vars /\ WF_vars(\E d \in FrameDeltas : FrameLoop(d))

\* Deactivation: React runs the cleanup of every effect and removes the frame
\* callback and the event props; the refs keep their values.
Unmount ==
    /\ mode = "bounded" /\ mounted
    /\ Tick("unmount")
    /\ UNCHANGED released
    /\ prevented' = FALSE
    /\ UNCHANGED treatments
    /\ mounted' = FALSE
    /\ rendered' = FALSE
    /\ listeners' = listeners \ (IF variant \in {"clamp", "momentum", "loop"}
                                  THEN DragListenersRemoved
                                  ELSE IF variant = "wheel" THEN WheelListenersRemoved
                                  ELSE {})
    /\ UNCHANGED <<sceneVars, nodeVars, physicsVars, bindingVars, mixerTime,
                   clipActions, circleRef, ghostVars, timeWritten>>

\* any variant on a scene of ScanLen nodes with distinct authored rotations
InitScan ==
    /\ mode = "scan"
    /\ variant \in {"clamp", "momentum", "loop", "wheel", "click"}
    /\ clipDuration = 1000
    /\ clipActions = <<NewAction>>
    /\ scene \in ScanScenes
    /\ \E r \in RestRotations : nodeRotX = [i \in DOMAIN scene |-> r * i]
    /\ nodePosY = [i \in DOMAIN scene |-> 0]
    /\ InitPhysics /\ InitGhost
    /\ smoothMotion = IF variant \in {"clamp", "momentum"} THEN Undefined ELSE 0
    /\ leftArmBaseRotation = IF variant \in {"clamp", "momentum"} THEN Undefined ELSE 0

NextScan ==
    \/ LoadEffectClamp \/ LoadEffectMomentum \/ LoadEffectLoop
    \/ LoadEffectWheel \/ LoadEffectClick
    \/ \E d \in FrameDeltas : FrameClamp(d)
    \/ \E d \in FrameDeltas : FrameMomentum(d)
    \/ \E d \in FrameDeltas : FrameLoop(d)
    \/ \E d \in FrameDeltas : FrameWheel(d)
    \/ \E d \in FrameDeltas : FrameClick(d)

ScanSpec == InitScan /\ [][NextScan]_vars

\* the scenes of mode "spin": two balls beside the forearm, a mesh that is both
\* the forearm and a ball, two balls around a node without a role
SpinScenes == {<<"arm", "Circle", "CIRCLE">>, <<"Left_Arm_Ball", "Circle">>,
               <<"Circle", "body", "CIRCLE">>}

\* a variant that spins balls, on a scene with balls of distinct rotations
InitSpin ==
    /\ mode = "spin"
    /\ variant \in {"clamp", "momentum", "loop", "wheel"}
    /\ clipDuration = 1000
    /\ clipActions = <<NewAction>>
    /\ scene \in SpinScenes
    /\ \E r \in RestRotations : nodeRotX = [i \in DOMAIN scene |-> r * i]
    /\ nodePosY = [i \in DOMAIN scene |-> 0]
    /\ InitPhysics /\ InitGhost
    /\ smoothMotion = IF variant \in {"clamp", "momentum"} THEN Undefined ELSE 0
    /\ leftArmBaseRotation = IF variant \in {"clamp", "momentum"} THEN Undefined ELSE 0

NextSpin == NextClamp \/ NextMomentum \/ NextLoop \/ NextWheel

SpinSpec == InitSpin /\ [][NextSpin]_vars

Init == InitClamp \/ InitMomentum \/ InitLoop \/ InitWheel \/ InitClick

Next == NextClamp \/ NextMomentum \/ NextLoop \/ NextWheel \/ NextClick \/ Unmount

Spec == Init /\ [][Next]_vars
-----------------------------------------------------------------------------
(* Properties *)

\* C1: in the bounded variants (clamp, wheel) scrollPos stays within
\* [0, maxTime] in every reachable state, whatever the interleaving of
\* pointer-down, move, up, wheel and frame events.
ScrollPosBounded ==
    variant \in {"clamp", "wheel"} => (0 <= scrollPos /\ scrollPos <= maxTime)

\* a clamped drag has saturated the target and a frame has moved scrollPos after it
ScrollPosBoundedWitness ==
    /\ variant = "clamp" /\ maxTime > 0
    /\ targetScroll = maxTime /\ scrollPos > 0 /\ lastEvent = "frame"

\* C2: between one pointer-down and the next the one-shot gesture is armed at
\* most once, whichever frame ticks and load-effect runs are interleaved.
ArmedOncePerSession == sessArmings <= 1

\* C3: handOffset and smoothMotion lie in [-1, 1] (here [-Span, Span]) in every
\* reachable state, for every elapsed time the frame callback is handed.
HandOffsetsInUnitRange ==
    /\ Abs(handOffset) <= Span
    /\ smoothMotion # Undefined => Abs(smoothMotion) <= Span

\* C4: with no further input spinVelocity decays to 0: from some frame on
\* |spinVelocity| stays within SpinEps.
SpinDecays == <>[](Abs(spinVelocity) <= SpinEps)

\* C5 as stated: after a drag session whose moves sum to zero, and IdleEnough
\* idle frames, targetScroll is back at its value from before the pointer-down
\* (within DecayTol).
NetZeroDragRestores ==
    (~isDragging /\ idleFrames >= IdleEnough /\ lastY = sessStartY)
        => Abs(targetScroll - sessStartTarget) <= DecayTol

\* C5 as the code has it: in the looping variant without release momentum
\* targetScroll equals its pre-drag value whenever the pointer is back where the
\* session began; in the clamped variant IdleEnough idle frames bring
\* targetScroll to 0, whatever it was before the drag.
NetZeroDragByVariant ==
    /\ (variant = "loop" /\ lastY = sessStartY) => targetScroll = sessStartTarget
    /\ (variant = "clamp" /\ ~isDragging /\ idleFrames >= IdleEnough)
          => targetScroll = 0

\* a loop-variant session went more than 20px away, came back, ended, and idled
NetZeroDragWitness ==
    /\ variant = "loop" /\ ~isDragging /\ idleFrames >= IdleEnough
    /\ handInteractionTriggered /\ lastY = sessStartY
    /\ targetScroll = sessStartTarget

\* the motion the frame callback poses the limb with: the clamped hand offset
\* (clamp variant) or the clamped smoothed hand offset (momentum, loop)
LimbMotion ==
    IF variant = "clamp" THEN Clamp(handOffset, -Span, Span)
    ELSE Clamp(smoothMotion, -Span, Span)

\* C6: after every frame tick with a limb bound, the limb's rotation.x is
\* leftArmBaseRotation + (motion > 0 ? motion * 90deg : motion * 20deg).
LimbRotationAbsolute ==
    (lastEvent = "frame" /\ leftArm # 0)
        => nodeRotX[leftArm] = leftArmBaseRotation + TargetRotation(LimbMotion)

\* the drag is held, its moves so far all went upward and span at least Span
\* pixels, and it began with targetScroll inside [0, maxTime]
UpwardOverTravel ==
    /\ isDragging
    /\ sessAllUp /\ sessStartY - lastY >= Span
    /\ 0 <= sessStartTarget /\ sessStartTarget <= maxTime

\* C7 as stated: in every displacement variant an all-upward drag of at least
\* Span pixels leaves targetScroll equal to maxTime.
OverTravelSaturates ==
    (variant \in {"clamp", "momentum", "loop"} /\ UpwardOverTravel)
        => targetScroll = maxTime

\* C7 as the code has it: in the clamped displacement variant targetScroll never
\* exceeds maxTime, and an all-upward drag of at least Span pixels leaves it
\* equal to maxTime; the looping variants do not clamp.
OverTravelSaturatesClamp ==
    variant = "clamp" =>
        /\ targetScroll <= maxTime
        /\ UpwardOverTravel => targetScroll = maxTime

\* a clamped drag of 275px upward, still held, on a file with a clip
OverTravelWitness ==
    /\ variant = "clamp" /\ isDragging /\ UpwardOverTravel
    /\ maxTime > 0 /\ targetScroll = maxTime

\* C8 as stated: a wheel sample of deltaY = -250 increases targetScroll by
\* 250 * handMoveSpeed, capped at maxTime.
UpwardSampleIncreases ==
    [][\A dy \in WheelDeltas :
          (HandleScroll(dy) /\ dy = -250)
              => targetScroll' = Min(targetScroll + 250 * HandMoveSpeed, maxTime)]_vars

\* C8 as the code has it: a wheel sample adds deltaY * handMoveSpeed to
\* targetScroll and the sum is clamped into [0, maxTime]; a negative deltaY
\* therefore never increases targetScroll, and deltaY = -250 lowers it by
\* 250 * handMoveSpeed where the floor allows.
RateModelStep ==
    [][\A dy \in WheelDeltas :
          HandleScroll(dy) =>
              /\ targetScroll' = Clamp(targetScroll + dy * HandMoveSpeed, 0, maxTime)
              /\ dy < 0 => targetScroll' <= targetScroll
              /\ (dy = -250 /\ targetScroll >= 250 * HandMoveSpeed)
                    => targetScroll' = targetScroll - 250 * HandMoveSpeed]_vars

\* the last wheel sample was deltaY = -250 (targetSpinVelocity records it) and
\* left targetScroll strictly inside the range
RateModelWitness ==
    /\ variant = "wheel" /\ lastEvent = "wheel"
    /\ targetSpinVelocity = TruncDiv((0 - 250) * 5 * AngleUnit, 10000)
    /\ 0 < targetScroll /\ targetScroll < maxTime

\* C9: in the click variant at most one clip action is running in every
\* reachable state, also when a trigger arrives while the clip still plays.
AtMostOneActionRunning ==
    variant = "click" =>
        Cardinality({i \in DOMAIN clipActions : IsRunning(clipActions[i])}) <= 1

\* a trigger found the first of two clips running, and it runs again
RetriggerWitness ==
    /\ variant = "click" /\ retriggers > 0
    /\ Len(clipActions) = 2 /\ IsRunning(clipActions[1])
    /\ lastEvent \in {"click", "pointerdown"}

\* C10: while the armed gesture has not reached progress 1, no input event
\* (pointer-down, move, up) and no frame tick resets it: it stays armed and its
\* progress does not go back.
ArmedGestureNotReset ==
    [][(/\ handInteractionTriggered /\ handInteractionProgress < Span
        /\ lastEvent' \in {"down", "move", "up", "frame"})
          => (handInteractionTriggered'
              /\ handInteractionProgress' >= handInteractionProgress)]_vars

\* C11: on a file without a clip (clipDuration = 0) no frame tick writes the
\* mixer's time cursor.
MissingClipSkipsScrub ==
    (lastEvent = "frame" /\ clipDuration = 0) => ~timeWritten

\* C12: after deactivation no listener is left registered on window, and no
\* pointer, touch or wheel event changes the motion state any more.
ListenersDetached ==
    /\ [](~rendered => listeners = {})
    /\ [][(~rendered /\ lastEvent' \in {"down", "move", "up", "wheel"})
            => UNCHANGED physicsVars]_vars

\* a drag variant was deactivated in the middle of a drag
ListenersDetachedWitness ==
    /\ variant \in {"clamp", "momentum", "loop"}
    /\ lastEvent = "unmount" /\ ~rendered /\ isDragging /\ listeners = {}

\* C13: after the load effect every single-valued role is bound to the first
\* node in traversal order whose name qualifies, whatever the case of the name,
\* and the captured base rotation is that node's rotation.
FirstQualifyingNodeWins ==
    (lastEvent = "load") =>
        /\ variant \in {"clamp", "momentum", "loop"} =>
              /\ leftArm = FirstNode(scene, "arm")
              /\ leftWrist = FirstNode(scene, "wrist")
              /\ leftArm # 0 => leftArmBaseRotation = nodeRotX[FirstNode(scene, "arm")]
        /\ variant = "click" => circleRef = FirstNode(scene, "ball")

\* C14: a variant treats targetScroll in one way only: within one run the clamp
\* of an input write and the idle decay of a frame never both alter it.
OneTreatmentOfTarget == treatments # {"clamp", "decay"}

\* C15: in the looping variants every write of the mixer's time cursor puts it
\* in [0, clipDuration), also for a negative scrollPos, and the cursor is
\* congruent to scrollPos modulo clipDuration.
LoopedTimeInRange ==
    (variant \in {"momentum", "loop"} /\ lastEvent = "frame" /\ timeWritten) =>
        /\ 0 <= mixerTime /\ mixerTime < maxTime
        /\ (mixerTime - scrollPos) % maxTime = 0

LoopedTimeWitness ==
    /\ variant \in {"momentum", "loop"} /\ lastEvent = "frame" /\ timeWritten
    /\ scrollPos < 0 /\ mixerTime > 0

\* C16: the limb rotation a frame tick writes does not depend on the limb's
\* rotation before the tick: from two states that differ only in the limb's
\* current rotation.x (the bone moved by one radian) one frame tick writes the
\* same rotation.x, whatever the motion value of the tick.
LimbWriteIgnoresCurrent ==
    (variant \in {"clamp", "momentum", "loop"} /\ rendered /\ leftArm # 0) =>
        \A motion \in {0 - Span, 0, Span} :
            LET moved == [nodeRotX EXCEPT ![leftArm] = @ + AngleUnit]
            IN IF variant = "clamp"
               THEN LimbLerped(nodeRotX, motion)[leftArm]
                        = LimbLerped(moved, motion)[leftArm]
               ELSE LimbAbsolute(nodeRotX, motion)[leftArm]
                        = LimbAbsolute(moved, motion)[leftArm]

\* C17: a pointer-up or touch-cancel clears isDragging and resets dragSpeed,
\* scrollVelocity and targetSpinVelocity to 0; it leaves targetScroll and
\* handOffset as they were.
ReleaseResetsVelocities ==
    [][(lastEvent' = "up") =>
          /\ ~isDragging'
          /\ dragSpeed' = 0 /\ scrollVelocity' = 0 /\ targetSpinVelocity' = 0
          /\ UNCHANGED <<targetScroll, handOffset>>]_vars

\* C18: a move sample that arrives while no drag is active changes nothing of
\* the motion state.
IdleMoveIgnored ==
    [][(lastEvent' = "move" /\ ~isDragging) => UNCHANGED physicsVars]_vars

\* a move arrived after a drag had displaced targetScroll and had ended
IdleMoveWitness ==
    /\ lastEvent = "move" /\ ~isDragging /\ targetScroll # 0
    /\ targetSpinVelocity # 0

\* x2 is strictly closer to 0 than x and on the same side, or both are 0
CloserToZero(x, x2) ==
    IF x = 0 THEN x2 = 0 ELSE Abs(x2) < Abs(x) /\ x2 * x >= 0

\* C19: in the clamp variant a frame tick during a drag leaves targetScroll and
\* handOffset unchanged, a frame tick outside a drag moves each strictly closer
\* to 0 without a change of sign, and IdleEnough idle frames after the release
\* bring both to 0.
IdleRetraction ==
    /\ [][(variant = "clamp" /\ lastEvent' = "frame") =>
             IF isDragging
             THEN UNCHANGED <<targetScroll, handOffset>>
             ELSE /\ CloserToZero(targetScroll, targetScroll')
                  /\ CloserToZero(handOffset, handOffset')]_vars
    /\ []((variant = "clamp" /\ ~isDragging /\ idleFrames >= IdleEnough)
             => (targetScroll = 0 /\ handOffset = 0))

\* the idle frames after a drag that displaced targetScroll have retracted it
IdleRetractionWitness ==
    /\ variant = "clamp" /\ lastEvent = "frame" /\ ~isDragging
    /\ "decay" \in treatments /\ sessStartTarget # 0
    /\ idleFrames >= IdleEnough /\ targetScroll = 0 /\ handOffset = 0

\* C20: every wheel event is applied as one sample with its deltaY, whether a
\* drag is active or not and without a change of isDragging, and its handler
\* calls preventDefault.
WheelSamplePrevented ==
    [][(lastEvent' = "wheel") =>
          /\ UNCHANGED isDragging
          /\ \E deltaY \in WheelDeltas :
                /\ targetScroll' = ScrollTarget(targetScroll, deltaY, maxTime)
                /\ targetSpinVelocity' = TruncDiv(deltaY * 5 * AngleUnit, 10000)
          /\ prevented']_vars

\* C21: a frame tick that finds limb, wrist and ball list unbound leaves every
\* scene node as it is, and in every state a frame tick can observe a bound
\* limb has its base rotation captured: right after the load effect the base
\* is the bound node's rotation.
UnboundFrameGuarded ==
    /\ [][(lastEvent' = "frame" /\ leftArm = 0 /\ leftWrist = 0 /\ ballsRef = <<>>)
             => UNCHANGED nodeVars]_vars
    /\ [](leftArm # 0 => leftArmBaseRotation # Undefined)
    /\ []((lastEvent = "load" /\ leftArm # 0)
             => leftArmBaseRotation = nodeRotX[leftArm])

\* a frame tick ran before the load effect on a scene that holds a forearm and
\* a ball: nothing is bound yet
UnboundFrameWitness ==
    /\ lastEvent = "frame" /\ ~mounted
    /\ leftArm = 0 /\ leftWrist = 0 /\ ballsRef = <<>>
    /\ BoundNode(scene, "arm") # 0 /\ BoundNode(scene, "ball") # 0

\* the nodes in the ball list
BoundBalls == {ballsRef[j] : j \in DOMAIN ballsRef}

\* C22: over every frame tick and every input event the difference of
\* rotation.x of any two bound balls stays what it was, and a node outside the
\* ball list, the limb aside, keeps its rotation.x.
BallDifferencesConstant ==
    [][/\ \A i \in BoundBalls, j \in BoundBalls :
             nodeRotX'[i] - nodeRotX'[j] = nodeRotX[i] - nodeRotX[j]
       /\ \A i \in DOMAIN nodeRotX \ (BoundBalls \cup {leftArm}) :
             nodeRotX'[i] = nodeRotX[i]]_vars

\* C22 as the code has it: every frame tick adds the new spinVelocity to
\* rotation.x of every bound ball that is not also the bound limb, the
\* difference of two such balls stays what it was over every step, and a node
\* that is neither in the ball list nor the limb keeps its rotation.x.
BallSpinUniform ==
    [][/\ (lastEvent' = "frame") =>
             \A i \in BoundBalls \ {leftArm} :
                 nodeRotX'[i] = nodeRotX[i] + spinVelocity'
       /\ \A i \in BoundBalls \ {leftArm}, j \in BoundBalls \ {leftArm} :
             nodeRotX'[i] - nodeRotX'[j] = nodeRotX[i] - nodeRotX[j]
       /\ \A i \in DOMAIN nodeRotX \ (BoundBalls \cup {leftArm}) :
             nodeRotX'[i] = nodeRotX[i]]_vars

\* a frame tick has just turned two bound balls by a spin that is not 0
BallSpinWitness ==
    /\ lastEvent = "frame" /\ spinVelocity # 0
    /\ Cardinality(BoundBalls \ {leftArm}) >= 2
    /\ \E i \in BoundBalls : \E r \in RestRotations : nodeRotX[i] = r * i + spinVelocity

\* C23: the scroll damping of a frame tick never overshoots: the new scrollPos
\* lies in the closed interval between the previous scrollPos and the
\* targetScroll the tick damps toward, for every elapsed delta.
ScrollDampingNoOvershoot ==
    [][(lastEvent' = "frame" /\ variant \in {"clamp", "momentum", "loop", "wheel"}) =>
          /\ Min(scrollPos, targetScroll') <= scrollPos'
          /\ scrollPos' <= Max(scrollPos, targetScroll')]_vars

\* a frame tick of a quarter second has moved scrollPos of the loop variant
\* toward a target it has not reached
ScrollDampingWitness ==
    /\ variant = "loop" /\ lastEvent = "frame"
    /\ scrollPos # 0 /\ scrollPos # targetScroll
    /\ Abs(scrollPos) * 10 > Abs(targetScroll) * 9

\* C24: in the loop variant targetScroll minus its value at pointer-down equals
\* -(lastY - startY) / 250 * clipDuration at every point of a drag session and
\* after it, and no frame tick changes targetScroll.
DragDisplacementTelescopes ==
    /\ [](variant = "loop" =>
             (targetScroll - sessStartTarget) * Span = (startY - lastY) * clipDuration)
    /\ [][(variant = "loop" /\ lastEvent' = "frame") => UNCHANGED targetScroll]_vars

\* a second drag session of the loop variant that began away from 0 went down
\* first and is now above its start
DragDisplacementWitness ==
    /\ variant = "loop" /\ isDragging /\ lastEvent = "move"
    /\ ~sessAllUp /\ lastY < startY
    /\ sessStartTarget # 0 /\ targetScroll # sessStartTarget

\* C25: in the momentum variant a frame tick outside a drag adds scrollVelocity
\* to targetScroll and then shrinks scrollVelocity to at most 0.95 of it; a
\* frame tick during a drag shrinks scrollVelocity to at most 0.8 of it and
\* leaves targetScroll alone.  After a release targetScroll never gets further
\* from its value at release than 20 times |scrollVelocity| at release, and
\* IdleEnough idle frames bring scrollVelocity to 0.
ReleaseMomentumBounded ==
    /\ [][(variant = "momentum" /\ lastEvent' = "frame") =>
             IF isDragging
             THEN /\ UNCHANGED targetScroll
                  /\ Abs(scrollVelocity') * 10 <= Abs(scrollVelocity) * 8
                  /\ scrollVelocity' * scrollVelocity >= 0
             ELSE /\ targetScroll' = targetScroll + scrollVelocity
                  /\ Abs(scrollVelocity') * 100 <= Abs(scrollVelocity) * 95
                  /\ scrollVelocity' * scrollVelocity >= 0]_vars
    /\ []((variant = "momentum" /\ ~isDragging)
             => Abs(targetScroll - released[1]) <= 20 * Abs(released[2]))
    /\ []((variant = "momentum" /\ ~isDragging /\ idleFrames >= IdleEnough)
             => scrollVelocity = 0)

\* the momentum of a release has run out and has carried targetScroll along
ReleaseMomentumWitness ==
    /\ variant = "momentum" /\ ~isDragging /\ lastEvent = "frame"
    /\ idleFrames >= IdleEnough /\ scrollVelocity = 0
    /\ released[2] # 0 /\ Abs(targetScroll - released[1]) > 10 * Abs(released[2])

=============================================================================
